---- MODULE Spec2Model ----
(***************************************************************************)
(* Model of libfutil's PostgreSQL layer, src/db/db_psql.c: db_query (the   *)
(* template compiler and the send/reconnect loop), db_query_finish,        *)
(* db_connect / db_tryconnect and the per-connection mutex.                *)
(***************************************************************************)
EXTENDS Integers, Sequences, FiniteSets, TLC

\* ------------------------------------------------------------ constants
DB_MAX_PARAMS == 16
ExecAttempts == 2
ConnMaxTries == 3
SleepModulus == 28
SleepFloor == 2

\* ------------------------------------------------------------ bounds
\* sizeof db->q : the scratch buffer of dbconn_t (declared in db.h)
QSize == 44
NThreads == 2
MaxCalls == 2
\* cap of the connect loop counter in keeptrying mode
MaxConnIter == 28
\* most tokens in the tail appended to a generated template
MaxTail == 1

Threads == 1..NThreads

NUL == "NUL"
NULL == "NULL"
DB_R_OK == "DB_R_OK"
DB_R_ERR == "DB_R_ERR"
DB_R_DUPLICATE_KEY == "DB_R_DUPLICATE_KEY"
ERRCODE_UNIQUE_VIOLATION == "23505"

Min(a, b) == IF a < b THEN a ELSE b

\* s repeated k times
Rep(s, k) == [j \in 1..(k * Len(s)) |-> s[((j - 1) % Len(s)) + 1]]

\* ------------------------------------------------------------ C strings
\* txt[i] of a NUL-terminated C string, i counted from 0
TxtAt(txt, i) == IF i < Len(txt) THEN txt[i + 1] ELSE NUL

Digit(d) == <<"0", "1", "2", "3", "4", "5", "6", "7", "8", "9">>[d + 1]

\* what printf's %u produces for n
RECURSIVE FmtU(_)
FmtU(n) == IF n < 10 THEN <<Digit(n)>> ELSE FmtU(n \div 10) \o <<Digit(n % 10)>>

\* the text of snprintf(.., "$%u", v)
FmtPlaceholder(v) == <<"$">> \o FmtU(v)

\* the text of snprintf(.., "'%s'", t)
FmtQuoted(t) == <<"'">> \o t \o <<"'">>

\* snprintf(&buf[o], sizeof buf - o, text): at most size-1 characters and a
\* terminator are written, nothing at all when size is 0
Snprintf(buf, o, text) ==
    LET size == QSize - o
        w == Min(Len(text), size - 1)
    IN  IF size <= 0 THEN buf
        ELSE [k \in 1..QSize |->
                IF k > o /\ k <= o + w THEN text[k - o]
                ELSE IF k = o + w + 1 THEN NUL
                ELSE buf[k]]

\* snprintfok() of libfutil/misc.h: the whole text and its terminator fitted
snprintfok(n, size) == n >= 0 /\ n < size

\* the C string held in buf: the characters before the first terminator
RECURSIVE CStrFrom(_, _)
CStrFrom(buf, k) ==
    IF k > Len(buf) \/ buf[k] = NUL THEN << >>
    ELSE <<buf[k]>> \o CStrFrom(buf, k + 1)

CStr(buf) == CStrFrom(buf, 1)

\* memzero(db->q, sizeof db->q)
ZeroBuf == [k \in 1..QSize |-> NUL]

\* ------------------------------------------------------------ integers
\* a fixed-width unsigned value is the tuple of its bytes, most significant
\* first; the host keeps it in memory least significant byte first
RECURSIVE Reverse(_)
Reverse(s) == IF s = << >> THEN << >> ELSE Reverse(Tail(s)) \o <<Head(s)>>

HostMem(x) == Reverse(x)

\* mutant: the 32-bit argument is sent in host byte order
htonlNoSwap(x) == x

htonl(x) == Reverse(x)

htonll(x) == Reverse(x)

\* ------------------------------------------------------------ directives
BoundDirectives == {"a", "b", "u", "U", "S"}
InlineDirectives == {"s", "t"}

\* typs[v], vals[v], lens[v], fmts[v] as set by the case of directive c
Param(c, a) ==
    CASE c = "a" -> [typ |-> "INETOID", val |-> a.str, len |-> 0, fmt |-> 0]
      [] c = "b" -> [typ |-> "CIDROID", val |-> a.str, len |-> 0, fmt |-> 0]
      [] c = "u" -> [typ |-> "INT4OID", val |-> HostMem(htonl(a.u32)), len |-> 4, fmt |-> 1]
      [] c = "U" -> [typ |-> "INT8OID", val |-> HostMem(htonll(a.u64)), len |-> 8, fmt |-> 1]
      [] c = "S" -> [typ |-> "TEXTOID", val |-> a.str, len |-> 0, fmt |-> 0]

\* the text the case of directive c hands to snprintf, v already incremented
DirectiveText(c, a, v) ==
    CASE c \in BoundDirectives -> FmtPlaceholder(v)
      [] c = "s" -> a.str
      [] c = "t" -> FmtQuoted(a.str)

VARIABLES conn, q, mutex, keeptrying, conninfo, keep_running, halted, nlive,
          pc, loc, res, hist, dec

vars == <<conn, q, mutex, keeptrying, conninfo, keep_running, halted, nlive,
          pc, loc, res, hist, dec>>

shared == <<conn, q, mutex, keeptrying, conninfo, keep_running, halted, nlive>>


\* ------------------------------------------------------------ replies
\* what PQexecParams can hand back: no reply object, or a reply with a status
\* and (for a failed one) an optional SQLSTATE; id is the send that produced it
NoReply == [est |-> NULL, sqlstate |-> NULL, id |-> 0]

OkStatuses == {"PGRES_COMMAND_OK", "PGRES_TUPLES_OK"}
ErrStatuses == {"PGRES_FATAL_ERROR", "PGRES_NONFATAL_ERROR"}
SqlStates == {NULL, ERRCODE_UNIQUE_VIOLATION, "42601"}

Replies(id) ==
    {NoReply}
    \cup {[est |-> e, sqlstate |-> NULL, id |-> id] : e \in OkStatuses}
    \cup {[est |-> e, sqlstate |-> r, id |-> id] : e \in ErrStatuses, r \in SqlStates}

\* est != PGRES_COMMAND_OK && est != PGRES_TUPLES_OK
StatusFailed(est) == est # "PGRES_COMMAND_OK" /\ est # "PGRES_TUPLES_OK"

\* mutant: every failed reply is a generic error
ClassifyGeneric(r) == DB_R_ERR

\* r != NULL && strcmp(r, dupcol) == 0 ? DB_R_DUPLICATE_KEY : DB_R_ERR
Classify(r) ==
    IF r # NULL /\ r = ERRCODE_UNIQUE_VIOLATION THEN DB_R_DUPLICATE_KEY ELSE DB_R_ERR

\* mutant: every fatal reply is resent
RetryableAnyFatal(est, r) == est = "PGRES_FATAL_ERROR"

\* est == PGRES_FATAL_ERROR && r == NULL
Retryable(est, r) == est = "PGRES_FATAL_ERROR" /\ r = NULL

\* ------------------------------------------------------------ the mutex
\* mutex_lock() of libfutil/misc.h on db->mutex: a plain mutual-exclusion lock;
\* the caller goes on only once nobody holds it
MutexFree(m) == m = 0

\* mutex_unlock(): the holder frees the lock; unlocking a free lock leaves it
\* free; unlocking a lock another thread holds is undefined: it is either
\* refused or it frees the other thread's lock
UnlockOutcomes(m, t) ==
    IF m = t \/ m = 0 THEN {0} ELSE {0, m}

\* mutant: the error returns forget their mutex_unlock
ErrUnlockForgotten(m, t) == {m}

\* db_query's own mutex_unlock(db->mutex) before "return (DB_R_ERR)"
ErrUnlock(m, t) == UnlockOutcomes(m, t)

\* ------------------------------------------------------------ locals
NoArgs == [u32 |-> <<0, 0, 0, 0>>, u64 |-> <<0, 0, 0, 0, 0, 0, 0, 0>>, str |-> << >>]

\* db_query's locals after the memzero()s and initialisers, before the scan
FreshLocals(tpl, a) ==
    [txt |-> tpl, arg |-> a, i |-> 0, o |-> 0, v |-> 0, rep |-> DB_R_OK,
     params |-> << >>, xi |-> 0, ci |-> 0]

\* what one call of db_query has done so far (history, not program state);
\* ntry, nsleep, sleep and prev are those of its latest run of db_connect
FreshHist(n, again) ==
    [calls |-> n, requery |-> again, nsend |-> 0, ntry |-> 0, ndrop |-> 0,
     nconnect |-> 0, unlocked |-> 0, first |-> NoReply, maxo |-> 0,
     cause |-> NULL, conn0 |-> NULL, site |-> 0, ret |-> NULL,
     nsleep |-> 0, sleep |-> 0, prev |-> 0, stopat |-> 0, stopsl |-> 0,
     blind |-> 0, nup |-> 0]

\* ------------------------------------------------------------ cells
\* one value on its way through a bound integer directive, the server and a
\* positional accessor: the directive and its argument x, the parameter par the
\* directive built, the column col the reply reports (type and cell bytes), the
\* accessor acc that read it, what it returned (ok) and stored (out); ndebug
\* tells whether the build compiles assert() away
NoCell == [typ |-> NULL, bytes |-> << >>]

NoDec ==
    [stage |-> "none", ndebug |-> FALSE, dir |-> NULL, x |-> << >>,
     par |-> [typ |-> NULL, val |-> << >>, len |-> 0, fmt |-> 0],
     col |-> NoCell, acc |-> NULL, ok |-> FALSE, out |-> << >>]

\* db_init() followed by db_initres() for every caller's result
Init ==
    /\ conn = NULL
    /\ q = ZeroBuf
    /\ mutex = 0
    /\ keeptrying = FALSE
    /\ conninfo \in BOOLEAN
    /\ keep_running = TRUE
    /\ halted = "no"
    /\ nlive = 0
    /\ pc = [t \in Threads |-> "idle"]
    /\ loc = [t \in Threads |-> FreshLocals(<< >>, NoArgs)]
    /\ res = [t \in Threads |-> NoReply]
    /\ hist = [t \in Threads |-> FreshHist(0, FALSE)]
    /\ dec = NoDec

Running == halted = "no"

\* ------------------------------------------------------------ db_query
\* the caller enters db_query(db, result, caller, txt, ...)
db_query_call(t, tpl, a) ==
    /\ Running
    /\ pc[t] = "idle"
    /\ hist[t].calls < MaxCalls
    /\ pc' = [pc EXCEPT ![t] = "lock"]
    /\ loc' = [loc EXCEPT ![t] = FreshLocals(tpl, a)]
    /\ hist' = [hist EXCEPT ![t] = FreshHist(@.calls + 1, FALSE)]
    /\ UNCHANGED <<dec, shared, res>>

\* result->res != NULL : "Query still open"
StillOpen(r) == r # NoReply

\* mutex_lock(db->mutex), then the check of result->res
db_query_enter(t) ==
    /\ Running
    /\ pc[t] = "lock"
    /\ MutexFree(mutex)
    /\ mutex' = t
    /\ IF StillOpen(res[t])
       THEN /\ halted' = "abort"
            /\ pc' = [pc EXCEPT ![t] = "aborted"]
       ELSE /\ halted' = halted
            /\ pc' = [pc EXCEPT ![t] = "scan"]
    /\ hist' = [hist EXCEPT ![t] = [@ EXCEPT !.conn0 = conn]]
    /\ UNCHANGED <<dec, conn, q, keeptrying, conninfo, keep_running, nlive, loc, res>>

\* v >= lengthof(vals)
TooManyParams(v) == v >= DB_MAX_PARAMS

\* the for loop's condition: rep == DB_R_OK && txt[i] != '\0'
ScanMore(l) == l.rep = DB_R_OK /\ TxtAt(l.txt, l.i) # NUL

\* a store to db->q[o] lands inside the buffer
InBuffer(o) == o < QSize

\* one round of the scan loop
db_query_scan(t) ==
    LET l == loc[t]
        c == TxtAt(l.txt, l.i)
        d == TxtAt(l.txt, l.i + 1)
    IN
    /\ Running
    /\ pc[t] = "scan"
    /\ IF ~ScanMore(l)
       THEN /\ pc' = [pc EXCEPT ![t] = "term"]
            /\ UNCHANGED <<dec, shared, loc, res, hist>>
       ELSE IF c # "%"
       THEN \* db->q[o++] = txt[i]
            IF InBuffer(l.o)
            THEN /\ q' = [q EXCEPT ![l.o + 1] = c]
                 /\ loc' = [loc EXCEPT ![t] = [@ EXCEPT !.o = l.o + 1, !.i = l.i + 1]]
                 /\ hist' = [hist EXCEPT ![t] = [@ EXCEPT !.maxo = IF l.o > @ THEN l.o ELSE @]]
                 /\ UNCHANGED <<dec, conn, mutex, keeptrying, conninfo, keep_running, halted, nlive, pc, res>>
            ELSE /\ halted' = "overrun"
                 /\ pc' = [pc EXCEPT ![t] = "overrun"]
                 /\ hist' = [hist EXCEPT ![t] = [@ EXCEPT !.maxo = IF l.o > @ THEN l.o ELSE @]]
                 /\ UNCHANGED <<dec, conn, q, mutex, keeptrying, conninfo, keep_running, nlive, loc, res>>
       ELSE IF TooManyParams(l.v)
       THEN \* break out of the loop, rep untouched
            /\ pc' = [pc EXCEPT ![t] = "term"]
            /\ loc' = [loc EXCEPT ![t] = [@ EXCEPT !.i = l.i + 1]]
            /\ UNCHANGED <<dec, shared, res, hist>>
       ELSE IF d \in BoundDirectives \cup InlineDirectives
       THEN LET v1 == IF d \in BoundDirectives THEN l.v + 1 ELSE l.v
                text == DirectiveText(d, l.arg, v1)
                n == Len(text)
                fits == snprintfok(n, QSize - l.o)
            IN  /\ q' = Snprintf(q, l.o, text)
                /\ loc' = [loc EXCEPT ![t] =
                      [@ EXCEPT !.v = v1,
                                !.params = IF d \in BoundDirectives
                                           THEN Append(@, Param(d, l.arg)) ELSE @,
                                !.o = IF fits THEN l.o + n ELSE l.o,
                                !.rep = IF fits THEN l.rep ELSE DB_R_ERR,
                                !.i = l.i + 2]]
                /\ hist' = [hist EXCEPT ![t] =
                      [@ EXCEPT !.maxo = IF QSize - l.o > 0 /\ l.o + Min(n, QSize - l.o - 1) > @
                                         THEN l.o + Min(n, QSize - l.o - 1) ELSE @,
                                !.cause = IF fits THEN @ ELSE "nofit"]]
                /\ UNCHANGED <<dec, conn, mutex, keeptrying, conninfo, keep_running, halted, nlive, pc, res>>
       ELSE \* case '\0' and default
            /\ loc' = [loc EXCEPT ![t] = [@ EXCEPT !.rep = DB_R_ERR, !.i = l.i + 2]]
            /\ hist' = [hist EXCEPT ![t] =
                  [@ EXCEPT !.cause = IF d = NUL THEN "atend" ELSE "unknown"]]
            /\ UNCHANGED <<dec, shared, pc, res>>


\* mutant: the "Failed already?" check never fires
CompileFailedNever(rep) == FALSE

\* "Failed already?": rep != DB_R_OK after the scan
CompileFailed(rep) == rep # DB_R_OK

\* db_query leaves: the status it returns and the return statement it took;
\* its locals end with its frame
Return(t, status, where) ==
    /\ pc' = [pc EXCEPT ![t] = "returned"]
    /\ loc' = [loc EXCEPT ![t] = FreshLocals(<< >>, NoArgs)]
    /\ hist' = [hist EXCEPT ![t] = [@ EXCEPT !.ret = status, !.site = where]]

\* the same, after db_query called mutex_unlock() itself
ReturnUnlocked(t, status, where) ==
    /\ pc' = [pc EXCEPT ![t] = "returned"]
    /\ loc' = [loc EXCEPT ![t] = FreshLocals(<< >>, NoArgs)]
    /\ hist' = [hist EXCEPT ![t] =
          [@ EXCEPT !.ret = status, !.site = where, !.unlocked = @ + 1]]

\* va_end; db->q[o] = '\0'; if (rep != DB_R_OK) { unlock; return DB_R_ERR }
db_query_term(t) ==
    LET l == loc[t] IN
    /\ Running
    /\ pc[t] = "term"
    /\ IF ~InBuffer(l.o)
       THEN /\ halted' = "overrun"
            /\ pc' = [pc EXCEPT ![t] = "overrun"]
            /\ hist' = [hist EXCEPT ![t] = [@ EXCEPT !.maxo = l.o]]
            /\ UNCHANGED <<dec, conn, q, mutex, keeptrying, conninfo, keep_running, nlive, loc, res>>
       ELSE /\ q' = [q EXCEPT ![l.o + 1] = NUL]
            /\ IF CompileFailed(l.rep)
               THEN /\ \E m \in ErrUnlock(mutex, t) : mutex' = m
                    /\ ReturnUnlocked(t, DB_R_ERR, 365)
               ELSE /\ mutex' = mutex
                    /\ pc' = [pc EXCEPT ![t] = "loop"]
                    /\ loc' = loc
                    /\ hist' = [hist EXCEPT ![t] = [@ EXCEPT !.maxo = IF l.o > @ THEN l.o ELSE @]]
            /\ UNCHANGED <<dec, conn, keeptrying, conninfo, keep_running, halted, nlive, res>>

\* mutant: the send loop runs once more
ExecMoreThrice(xi) == xi < ExecAttempts + 1

\* for (i = 0; i < 2; i++)
ExecMore(xi) == xi < ExecAttempts

\* mutant: db_connect is called whatever the handle is
NotConnectedAlways(c) == TRUE

\* "Not connected? Set it up": db->conn == NULL
NotConnected(c) == c = NULL

\* the head of the send loop: its condition, and "Not connected? Set it up"
db_query_loop(t) ==
    LET l == loc[t] IN
    /\ Running
    /\ pc[t] = "loop"
    /\ IF ~ExecMore(l.xi)
       THEN Return(t, l.rep, 444)
       ELSE IF NotConnected(conn)
       THEN \* db_connect(db): i = 0
            /\ pc' = [pc EXCEPT ![t] = "connect"]
            /\ loc' = [loc EXCEPT ![t] = [@ EXCEPT !.ci = 0]]
            /\ hist' = [hist EXCEPT ![t] =
                  [@ EXCEPT !.nconnect = IF hist[t].nsend > 0 THEN @ + 1 ELSE @,
                            !.ntry = 0, !.nsleep = 0, !.sleep = 0, !.prev = 0]]
       ELSE /\ pc' = [pc EXCEPT ![t] = "chk"]
            /\ UNCHANGED <<dec, loc, hist>>
    /\ UNCHANGED <<dec, shared, res>>

\* mutant: the fixed-retry mode tries once more
ConnectMoreFour(kt, ci) == kt \/ ci < ConnMaxTries + 1

\* db_connect's loop condition: db->keeptrying || i < max
ConnectMore(kt, ci) == kt \/ ci < ConnMaxTries

\* thread_sleep((i % 28) + 2, 0)
SleepSeconds(ci) == (ci % SleepModulus) + SleepFloor

\* mutant: the shutdown signal is never seen
StopRunningIgnored(kr) == FALSE

\* if (!thread_keep_running()) break;
StopRunning(kr) == ~kr

\* one round of db_connect's loop: db_tryconnect(), the shutdown check, the sleep
db_connect_iter(t) ==
    LET l == loc[t] IN
    /\ Running
    /\ pc[t] = "connect"
    /\ l.ci <= MaxConnIter \/ ~keep_running
    /\ IF ~ConnectMore(keeptrying, l.ci)
       THEN /\ pc' = [pc EXCEPT ![t] = "chk"]
            /\ UNCHANGED <<dec, shared, loc, hist>>
       ELSE IF conn # NULL
       THEN \* assert(!db->conn) in db_tryconnect
            /\ halted' = "assert"
            /\ pc' = [pc EXCEPT ![t] = "assert"]
            /\ UNCHANGED <<dec, conn, q, mutex, keeptrying, conninfo, keep_running, nlive, loc, hist>>
       ELSE \E up \in BOOLEAN :
            /\ IF conninfo /\ up
               THEN \* PQstatus(db->conn) == CONNECTION_OK
                    /\ conn' = "PGconn"
                    /\ pc' = [pc EXCEPT ![t] = "chk"]
                    /\ loc' = loc
                    /\ hist' = [hist EXCEPT ![t] = [@ EXCEPT !.ntry = @ + 1, !.nup = @ + 1]]
               ELSE /\ conn' = NULL
                    /\ IF StopRunning(keep_running)
                       THEN /\ pc' = [pc EXCEPT ![t] = "chk"]
                            /\ loc' = loc
                            /\ hist' = [hist EXCEPT ![t] =
                                  [@ EXCEPT !.ntry = @ + 1, !.stopat = hist[t].ntry + 1,
                                            !.stopsl = hist[t].nsleep]]
                       ELSE \* thread_sleep((i % 28) + 2, 0); i++
                            /\ pc' = pc
                            /\ loc' = [loc EXCEPT ![t] = [@ EXCEPT !.ci = l.ci + 1]]
                            /\ hist' = [hist EXCEPT ![t] =
                                  [@ EXCEPT !.ntry = @ + 1, !.nsleep = @ + 1,
                                            !.prev = hist[t].sleep,
                                            !.sleep = SleepSeconds(l.ci),
                                            !.blind = IF keep_running THEN @ ELSE @ + 1]]
            /\ UNCHANGED <<dec, q, mutex, keeptrying, conninfo, keep_running, halted, nlive>>
    /\ res' = res

\* if (db->conn == NULL) { "No connection"; unlock; return DB_R_ERR }
db_query_chk(t) ==
    /\ Running
    /\ pc[t] = "chk"
    /\ IF conn = NULL
       THEN /\ \E m \in ErrUnlock(mutex, t) : mutex' = m
            /\ ReturnUnlocked(t, DB_R_ERR, 377)
       ELSE /\ mutex' = mutex
            /\ pc' = [pc EXCEPT ![t] = "send"]
            /\ UNCHANGED <<dec, loc, hist>>
    /\ UNCHANGED <<dec, conn, q, keeptrying, conninfo, keep_running, halted, nlive, res>>

\* result->res = PQexecParams(...) and what the loop body does with the reply
db_query_send(t) ==
    LET l == loc[t] IN
    /\ Running
    /\ pc[t] = "send"
    /\ \E r \in Replies(hist[t].nsend + 1) :
        /\ res' = [res EXCEPT ![t] = r]
        /\ nlive' = IF r = NoReply THEN nlive ELSE nlive + 1
        /\ IF r = NoReply
           THEN \* PQfinish; db->conn = NULL; rep = DB_R_ERR; continue
                /\ conn' = NULL
                /\ loc' = [loc EXCEPT ![t] = [@ EXCEPT !.rep = DB_R_ERR, !.xi = l.xi + 1]]
                /\ pc' = [pc EXCEPT ![t] = "loop"]
                /\ hist' = [hist EXCEPT ![t] =
                      [@ EXCEPT !.nsend = @ + 1, !.first = IF hist[t].nsend = 0 THEN r ELSE @, !.ndrop = @ + 1]]
           ELSE IF StatusFailed(r.est)
           THEN IF Retryable(r.est, r.sqlstate)
                THEN \* PQfinish; db->conn = NULL; continue
                     /\ conn' = NULL
                     /\ loc' = [loc EXCEPT ![t] =
                           [@ EXCEPT !.rep = Classify(r.sqlstate), !.xi = l.xi + 1]]
                     /\ pc' = [pc EXCEPT ![t] = "loop"]
                     /\ hist' = [hist EXCEPT ![t] =
                           [@ EXCEPT !.nsend = @ + 1, !.first = IF hist[t].nsend = 0 THEN r ELSE @, !.ndrop = @ + 1]]
                ELSE \* "Give up on it": break, return (rep)
                     /\ conn' = conn
                     /\ loc' = [loc EXCEPT ![t] = FreshLocals(<< >>, NoArgs)]
                     /\ pc' = [pc EXCEPT ![t] = "returned"]
                     /\ hist' = [hist EXCEPT ![t] =
                           [@ EXCEPT !.nsend = @ + 1, !.first = IF hist[t].nsend = 0 THEN r ELSE @,
                                     !.ret = Classify(r.sqlstate), !.site = 444]]
           ELSE \* Success: rep = DB_R_OK; break; return (rep)
                /\ conn' = conn
                /\ loc' = [loc EXCEPT ![t] = FreshLocals(<< >>, NoArgs)]
                /\ pc' = [pc EXCEPT ![t] = "returned"]
                /\ hist' = [hist EXCEPT ![t] =
                      [@ EXCEPT !.nsend = @ + 1, !.first = IF hist[t].nsend = 0 THEN r ELSE @,
                                !.ret = DB_R_OK, !.site = 444]]
    /\ UNCHANGED <<dec, q, mutex, keeptrying, conninfo, keep_running, halted>>

\* ------------------------------------------------------------ db_query_finish
\* result != NULL && result->res != NULL
HasResult(r) == r # NoReply

\* PQclear, result->res = NULL and memzero(db->q) when a reply is attached;
\* mutex_unlock(db->mutex) always
db_query_finish(t) ==
    /\ Running
    /\ pc[t] = "returned"
    /\ IF HasResult(res[t])
       THEN /\ nlive' = nlive - 1
            /\ res' = [res EXCEPT ![t] = NoReply]
            /\ q' = ZeroBuf
       ELSE UNCHANGED <<dec, nlive, res, q>>
    /\ \E m \in UnlockOutcomes(mutex, t) : mutex' = m
    /\ pc' = [pc EXCEPT ![t] = "idle"]
    \* the record of the finished call is dropped
    /\ hist' = [hist EXCEPT ![t] = FreshHist(@.calls, FALSE)]
    /\ UNCHANGED <<dec, conn, keeptrying, conninfo, keep_running, halted, loc>>

\* a caller that calls db_query again with the same result, without having
\* called db_query_finish
db_query_again(t, tpl, a) ==
    /\ Running
    /\ pc[t] = "returned"
    /\ hist[t].calls < MaxCalls
    /\ pc' = [pc EXCEPT ![t] = "lock"]
    /\ loc' = [loc EXCEPT ![t] = FreshLocals(tpl, a)]
    /\ hist' = [hist EXCEPT ![t] = FreshHist(@.calls + 1, TRUE)]
    /\ UNCHANGED <<dec, shared, res>>

\* ------------------------------------------------------------ result accessors
Zero32 == <<0, 0, 0, 0>>
Zero64 == <<0, 0, 0, 0, 0, 0, 0, 0>>

\* *(uint32_t *)d and *(uint64_t *)d: the host reads n bytes at d, the least
\* significant one first
HostLoad(d, n) == Reverse(SubSeq(d, 1, n))

ntohl(v) == Reverse(v)

\* ntohll() of libfutil/misc.h
ntohll(v) == Reverse(v)

\* mutant: the narrowing keeps the high-order half
NarrowHigh(v) == SubSeq(v, 1, 4)

\* a uint64_t stored through a uint32_t *: the low-order 32 bits stay
Narrow32(v) == SubSeq(v, Len(v) - 3, Len(v))

\* a uint32_t stored through a uint64_t *: the high-order 32 bits are zero
Widen64(v) == Zero32 \o v

\* the caller's variadic argument for directive d holding x
ArgOf(d, x) ==
    [u32 |-> IF d = "u" THEN x ELSE Zero32,
     u64 |-> IF d = "U" THEN x ELSE Zero64,
     str |-> << >>]

\* db_query's case 'u' / case 'U' builds the binary parameter
EncodeParam ==
    /\ Running
    /\ dec.stage = "arg"
    /\ dec' = [dec EXCEPT !.stage = "param", !.par = Param(dec.dir, ArgOf(dec.dir, dec.x))]
    /\ UNCHANGED <<conn, q, mutex, keeptrying, conninfo, keep_running, halted, nlive, pc, loc, res, hist>>

ColumnTypes == {"INT4OID", "INT8OID", "TEXTOID", "VARCHAROID", "BOOLOID", "INETOID"}

\* the server can hand the parameter back as a column of type typ
Castable(typ, par) ==
    (par.typ = "INT8OID" /\ typ = "INT4OID") => SubSeq(par.val, 1, 4) = Zero32

\* the cell bytes of that column, in network order
CellOf(typ, par) ==
    CASE typ = par.typ -> par.val
      [] typ = "INT8OID" /\ par.typ = "INT4OID" -> Zero32 \o par.val
      [] typ = "INT4OID" /\ par.typ = "INT8OID" -> SubSeq(par.val, 5, 8)
      [] OTHER -> par.val

\* the reply: PQftype() reports typ and PQgetvalue() points at the cell
ServerColumn ==
    /\ Running
    /\ dec.stage = "param"
    /\ \E typ \in ColumnTypes :
         /\ Castable(typ, dec.par)
         /\ dec' = [dec EXCEPT !.stage = "cell",
                                !.col = [typ |-> typ, bytes |-> CellOf(typ, dec.par)]]
    /\ UNCHANGED <<conn, q, mutex, keeptrying, conninfo, keep_running, halted, nlive, pc, loc, res, hist>>

\* an accessor leaves: it returned ok and stored out, unless it ran into
\* assert(false) in a build that keeps its assertions
Accessed(name, ok, out, trap) ==
    IF trap /\ ~dec.ndebug
    THEN /\ halted' = "assert"
         /\ dec' = [dec EXCEPT !.stage = "aborted", !.acc = name]
    ELSE /\ halted' = halted
         /\ dec' = [dec EXCEPT !.stage = "done", !.acc = name, !.ok = ok, !.out = out]

\* the char * an accessor stores: NULL or a pointer to the cell
NullPtr == [null |-> TRUE, at |-> << >>]
PtrTo(d) == [null |-> FALSE, at |-> d]

db_result_get_string ==
    /\ Running
    /\ dec.stage = "cell"
    /\ IF dec.col.typ = "TEXTOID" \/ dec.col.typ = "VARCHAROID"
       THEN Accessed("get_string", TRUE, PtrTo(dec.col.bytes), FALSE)
       ELSE Accessed("get_string", FALSE, NullPtr, TRUE)
    /\ UNCHANGED <<conn, q, mutex, keeptrying, conninfo, keep_running, nlive, pc, loc, res, hist>>

db_result_get_uint32 ==
    /\ Running
    /\ dec.stage = "cell"
    /\ CASE dec.col.typ = "INT4OID" ->
              Accessed("get_uint32", TRUE, ntohl(HostLoad(dec.col.bytes, 4)), FALSE)
         [] dec.col.typ = "INT8OID" ->
              Accessed("get_uint32", TRUE, Narrow32(ntohll(HostLoad(dec.col.bytes, 8))), FALSE)
         [] OTHER -> Accessed("get_uint32", FALSE, Zero32, TRUE)
    /\ UNCHANGED <<conn, q, mutex, keeptrying, conninfo, keep_running, nlive, pc, loc, res, hist>>

db_result_get_uint64 ==
    /\ Running
    /\ dec.stage = "cell"
    /\ CASE dec.col.typ = "INT4OID" ->
              Accessed("get_uint64", TRUE, Widen64(ntohl(HostLoad(dec.col.bytes, 4))), FALSE)
         [] dec.col.typ = "INT8OID" ->
              Accessed("get_uint64", TRUE, ntohll(HostLoad(dec.col.bytes, 8)), FALSE)
         [] OTHER -> Accessed("get_uint64", FALSE, Zero64, TRUE)
    /\ UNCHANGED <<conn, q, mutex, keeptrying, conninfo, keep_running, nlive, pc, loc, res, hist>>

\* *b = *(bool *)d for a boolean column; no assert on the other types
db_result_get_bool ==
    /\ Running
    /\ dec.stage = "cell"
    /\ IF dec.col.typ = "BOOLOID"
       THEN Accessed("get_bool", TRUE, dec.col.bytes[1] # 0, FALSE)
       ELSE Accessed("get_bool", FALSE, FALSE, FALSE)
    /\ UNCHANGED <<conn, q, mutex, keeptrying, conninfo, keep_running, nlive, pc, loc, res, hist>>

\* ------------------------------------------------------------ environment
\* db_set_keeptrying(db, keeptrying), by a caller between queries
db_set_keeptrying(t, b) ==
    /\ Running
    /\ pc[t] = "idle"
    /\ keeptrying # b
    /\ keeptrying' = b
    /\ UNCHANGED <<dec, conn, q, mutex, conninfo, keep_running, halted, nlive, pc, loc, res, hist>>

\* the process is told to stop: thread_keep_running() is false from now on
Shutdown ==
    /\ Running
    /\ keep_running
    /\ keep_running' = FALSE
    /\ UNCHANGED <<dec, conn, q, mutex, keeptrying, conninfo, halted, nlive, pc, loc, res, hist>>


\* ------------------------------------------------------------ inputs
ArgShort == [u32 |-> <<0, 0, 0, 7>>, u64 |-> <<0, 0, 0, 0, 0, 0, 1, 7>>, str |-> <<"a", "b">>]
ArgEmpty == [u32 |-> <<255, 255, 255, 254>>, u64 |-> <<1, 2, 3, 4, 5, 6, 7, 8>>, str |-> << >>]
ArgLong == [u32 |-> <<0, 0, 1, 0>>, u64 |-> <<128, 0, 0, 0, 0, 0, 0, 0>>, str |-> Rep(<<"y">>, QSize)]

Args == {ArgShort, ArgEmpty, ArgLong}

\* templates of a single caller
SmallTemplates == {<<"a">>, <<"%", "u">>, <<"a", "%", "z">>, <<"a", "%", "s">>}

\* templates of the threads that share one connection
SharedTemplates == {<<"a">>, <<"a", "%", "z">>}

TailTokens == {<<"x">>, <<"%", "s">>, <<"%", "z">>, <<"%">>}

RECURSIVE Flatten(_)
Flatten(ss) == IF ss = << >> THEN << >> ELSE Head(ss) \o Flatten(Tail(ss))

Tails == {Flatten(ss) : ss \in UNION {[1..n -> TailTokens] : n \in 0..MaxTail}}

DirectiveUnits ==
    {<<"%", d>> : d \in BoundDirectives \cup InlineDirectives}
    \cup {<<"%", "u", "%", "s">>, <<"%", "U", "x", "%", "b">>, <<"%", "S", "%", "t", "%", "a">>}

\* generated templates: a unit repeated, then a short tail
RichTemplates ==
    {Rep(<<"x">>, k) \o tl : k \in 0..(QSize + 1), tl \in Tails}
    \cup {Rep(u, k) \o tl : u \in DirectiveUnits, k \in 1..(DB_MAX_PARAMS + 1), tl \in Tails}

\* ------------------------------------------------------------ specifications
Step(t) ==
    \/ db_query_enter(t)
    \/ db_query_scan(t)
    \/ db_query_term(t)
    \/ db_query_loop(t)
    \/ db_connect_iter(t)
    \/ db_query_chk(t)
    \/ db_query_send(t)

Call(t) == \E tpl \in SmallTemplates : db_query_call(t, tpl, ArgShort)

CallAgain(t) == \E tpl \in SmallTemplates : db_query_again(t, tpl, ArgShort)

SharedCall(t) == \E tpl \in SharedTemplates : db_query_call(t, tpl, ArgShort)

SetKeeptrying(t) == \E b \in BOOLEAN : db_set_keeptrying(t, b)

\* threads sharing one connection, each following db_query with db_query_finish
Next ==
    \/ \E t \in Threads : SharedCall(t)
    \/ \E t \in Threads : Step(t)
    \/ \E t \in Threads : db_query_finish(t)

Spec == Init /\ [][Next]_vars

\* one caller, following db_query with db_query_finish
NextSeq ==
    \/ Call(1)
    \/ Step(1)
    \/ db_query_finish(1)
    \/ SetKeeptrying(1)
    \/ Shutdown

SpecSeq == Init /\ [][NextSeq]_vars

\* the same caller, whose thread keeps running while it is inside db_query
SpecSeqFair == SpecSeq /\ WF_vars(Step(1))

\* one caller that may call db_query again without db_query_finish
NextU ==
    \/ Call(1)
    \/ CallAgain(1)
    \/ Step(1)
    \/ db_query_finish(1)
    \/ Shutdown

SpecU == Init /\ [][NextU]_vars

\* one call of db_query with a generated template, on a connection that is
\* either not yet connected or connected by an earlier query
InitC ==
    /\ conn \in {NULL, "PGconn"}
    /\ q = ZeroBuf
    /\ mutex = 0
    /\ keeptrying = FALSE
    /\ conninfo = TRUE
    /\ keep_running = TRUE
    /\ halted = "no"
    /\ nlive = 0
    /\ \E tpl \in RichTemplates, a \in Args :
         /\ pc = [t \in Threads |-> IF t = 1 THEN "lock" ELSE "idle"]
         /\ loc = [t \in Threads |-> IF t = 1 THEN FreshLocals(tpl, a) ELSE FreshLocals(<< >>, NoArgs)]
    /\ res = [t \in Threads |-> NoReply]
    /\ hist = [t \in Threads |-> FreshHist(IF t = 1 THEN 1 ELSE 0, FALSE)]
    /\ dec = NoDec

NextC ==
    \/ Step(1)
    \/ db_query_finish(1)

SpecC == InitC /\ [][NextC]_vars

\* integer arguments: every byte pattern over ByteVals
ByteVals == {0, 1, 255}
U32s == {<<a, b, c, d>> : a, b, c, d \in ByteVals}
HalfVals == {<<a, b, c, d>> : a, b \in {0, 255}, c, d \in {1, 255}} \cup {Zero32}
U64s == {hi \o lo : hi, lo \in HalfVals}

\* one integer through %u or %U, the server, and one positional accessor
InitD ==
    /\ conn = NULL
    /\ q = ZeroBuf
    /\ mutex = 0
    /\ keeptrying = FALSE
    /\ conninfo = TRUE
    /\ keep_running = TRUE
    /\ halted = "no"
    /\ nlive = 0
    /\ pc = [t \in Threads |-> "idle"]
    /\ loc = [t \in Threads |-> FreshLocals(<< >>, NoArgs)]
    /\ res = [t \in Threads |-> NoReply]
    /\ hist = [t \in Threads |-> FreshHist(0, FALSE)]
    /\ \E nd \in BOOLEAN, d \in {"u", "U"} :
         \E x \in (IF d = "u" THEN U32s ELSE U64s) :
            dec = [NoDec EXCEPT !.stage = "arg", !.ndebug = nd, !.dir = d, !.x = x]

NextD ==
    \/ EncodeParam
    \/ ServerColumn
    \/ db_result_get_string
    \/ db_result_get_uint32
    \/ db_result_get_uint64
    \/ db_result_get_bool

SpecD == InitD /\ [][NextD]_vars


\* ------------------------------------------------------------ properties
\* thread t is inside db_query, past mutex_lock
InQuery(t) == pc[t] \in {"scan", "term", "loop", "connect", "chk", "send"}

\* thread t is between a db_query that returned without unlocking and its
\* db_query_finish
Unfinished(t) == pc[t] = "returned" /\ hist[t].unlocked = 0

\* the concatenation of ss[lo], ..., ss[hi]
RECURSIVE Concat(_, _, _)
Concat(ss, lo, hi) ==
    IF lo > hi THEN << >>
    ELSE IF lo = hi THEN ss[lo]
    ELSE LET mid == (lo + hi) \div 2
         IN  Concat(ss, lo, mid) \o Concat(ss, mid + 1, hi)

\* the bound directives of txt that start after offset i and before position k
BoundBefore(txt, i, k) ==
    {j \in (i + 1)..(k - 1) : txt[j] = "%" /\ TxtAt(txt, j) \in BoundDirectives}

\* every '%' of txt after offset i and before position k is followed by a
\* directive letter
WellFormedTo(txt, i, k) ==
    \A j \in (i + 1)..(k - 1) :
        txt[j] = "%" => TxtAt(txt, j) \in BoundDirectives \cup InlineDirectives

\* what the directive grammar says a template renders to from offset i on, n
\* parameters being bound already: the SQL text and the bound directives in
\* order, or ok = FALSE for an unknown or cut-off directive
Expected(txt, a, i, n) ==
    LET N == Len(txt)
        Sql(k) ==
            IF txt[k] = "%"
            THEN LET d == TxtAt(txt, k) IN
                 IF d \in BoundDirectives
                 THEN <<"$">> \o FmtU(n + Cardinality(BoundBefore(txt, i, k)) + 1)
                 ELSE IF d = "s" THEN a.str
                 ELSE <<"'">> \o a.str \o <<"'">>
            ELSE IF k > i + 1 /\ txt[k - 1] = "%" THEN << >>
            ELSE <<txt[k]>>
        Dir(k) ==
            IF txt[k] = "%" /\ TxtAt(txt, k) \in BoundDirectives
            THEN <<TxtAt(txt, k)>> ELSE << >>
    IN  IF WellFormedTo(txt, i, N + 1)
        THEN [ok |-> TRUE,
              sql |-> Concat([k \in 1..N |-> IF k <= i THEN << >> ELSE Sql(k)], 1, N),
              dirs |-> Concat([k \in 1..N |-> IF k <= i THEN << >> ELSE Dir(k)], 1, N)]
        ELSE [ok |-> FALSE, sql |-> << >>, dirs |-> << >>]

\* the template meets a directive when DB_MAX_PARAMS parameters are bound
MeetsFull(txt, i, n) ==
    \E k \in (i + 1)..Len(txt) :
        /\ txt[k] = "%"
        /\ WellFormedTo(txt, i, k)
        /\ n + Cardinality(BoundBefore(txt, i, k)) >= DB_MAX_PARAMS

\* the type tag and binary flag the directive table gives a bound directive
TypeOf(d) ==
    CASE d = "u" -> "INT4OID" [] d = "U" -> "INT8OID" [] d = "S" -> "TEXTOID"
      [] d = "a" -> "INETOID" [] d = "b" -> "CIDROID"

BinaryOf(d) == IF d \in {"u", "U"} THEN 1 ELSE 0

\* C1: with threads sharing one Connection, each following db_query with
\* db_query_finish, at most one thread is between a db_query that returned with
\* the lock held and its db_query_finish, and no thread compiles or sends while
\* another thread's query is unfinished.
C1_OneQueryInFlight ==
    /\ Cardinality({t \in Threads : Unfinished(t)}) <= 1
    /\ \A t, u \in Threads : (t # u /\ InQuery(t)) => ~Unfinished(u)

\* C2: a db_query called while the reply of the caller's previous db_query is
\* still attached to the Result ends in the abort of the "Query still open"
\* check: it neither goes on to compile or send nor waits for a lock that only
\* the caller itself could release.
C2_RequeryAborts ==
    \A t \in Threads :
        (hist[t].requery /\ StillOpen(res[t])) =>
            /\ pc[t] \in {"lock", "aborted"}
            /\ ~(pc[t] = "lock" /\ mutex = t)

\* C3: a template that meets a directive when DB_MAX_PARAMS parameters are
\* already bound is never sent.
C3_TooManyNeverSent ==
    \A t \in Threads : pc[t] = "send" => ~MeetsFull(loc[t].txt, 0, 0)

\* C4: no store into the scratch buffer goes past its last byte, and a template
\* whose rendered SQL does not fit the buffer never gets past compilation.
C4_NoOverrun ==
    \A t \in Threads :
        /\ hist[t].maxo <= QSize - 1
        /\ halted # "overrun"
        /\ (pc[t] \in {"loop", "connect", "chk", "send"} /\ ~MeetsFull(loc[t].txt, 0, 0)
              /\ Expected(loc[t].txt, loc[t].arg, 0, 0).ok)
            => Len(Expected(loc[t].txt, loc[t].arg, 0, 0).sql) <= QSize - 1

\* C5: at the end of the scan of a well-formed template with at most
\* DB_MAX_PARAMS bound directives whose rendering fits the buffer, the status
\* is OK, the buffer holds the rendering with $k for the k-th bound directive,
\* and the k-th parameter has the type and binary flag of that directive.
C5_CompilesAsRendered ==
    \A t \in Threads :
        LET l == loc[t]
            e == Expected(l.txt, l.arg, 0, 0)
        IN  (pc[t] = "term" /\ e.ok /\ Len(e.dirs) <= DB_MAX_PARAMS /\ Len(e.sql) < QSize) =>
                /\ l.rep = DB_R_OK
                /\ l.o = Len(e.sql)
                /\ SubSeq(q, 1, l.o) = e.sql
                /\ Len(l.params) = Len(e.dirs)
                /\ \A k \in 1..Len(e.dirs) :
                      /\ l.params[k].typ = TypeOf(e.dirs[k])
                      /\ l.params[k].fmt = BinaryOf(e.dirs[k])

\* C6: a db_query whose compilation failed on an unknown directive letter or on
\* a '%' at the end of the template has returned the error status, released
\* the lock itself, attempted no connection, sent nothing and left the
\* connection handle as it found it.
C6_BadDirectiveNoNetwork ==
    \A t \in Threads :
        (pc[t] = "returned" /\ hist[t].cause \in {"unknown", "atend"}) =>
            /\ hist[t].ret = DB_R_ERR
            /\ hist[t].unlocked = 1
            /\ mutex # t
            /\ hist[t].ntry = 0
            /\ hist[t].nsend = 0
            /\ hist[t].ndrop = 0
            /\ conn = hist[t].conn0
            /\ res[t] = NoReply

C6_Witness ==
    \E t \in Threads :
        /\ pc[t] = "returned"
        /\ hist[t].cause = "unknown"
        /\ hist[t].conn0 = "PGconn"

\* the call ended without a connection while it still had a send left
NoConnection(t) == conn = NULL /\ hist[t].nsend < ExecAttempts

\* C7: db_query has released the lock itself exactly when it returns
\* CompileError or ConnectionError; on every other return (OK, QueryError,
\* DuplicateKey, retries exhausted) the caller still holds the lock.
C7_LockReleasedOnlyOnEarlyErrors ==
    \A t \in Threads :
        pc[t] = "returned" =>
            IF hist[t].cause # NULL \/ NoConnection(t)
            THEN hist[t].unlocked = 1 /\ mutex # t /\ hist[t].ret = DB_R_ERR
            ELSE hist[t].unlocked = 0 /\ mutex = t

C7_Witness ==
    \E t \in Threads :
        /\ pc[t] = "returned"
        /\ hist[t].nsend = 1
        /\ NoConnection(t)
        /\ mutex = 0

\* C8: right after a db_query followed by db_query_finish the scratch buffer is
\* empty and the lock is free.
C8_FinishClearsAndFrees ==
    \A t \in Threads :
        (pc[t] = "idle" /\ hist[t].calls > 0) => (q = ZeroBuf /\ mutex = 0)

\* C9: at most one reply obtained from the server is unreleased at any moment.
C9_OneLiveReply == nlive <= 1

\* C10: a db_query call sends at most twice, and when its first send yielded no
\* reply and its resend a reply with status command-ok or rows-ok it returns OK
\* with that reply attached, after one drop and one reconnect.
C10_ResendSucceeds ==
    \A t \in Threads :
        /\ hist[t].nsend <= 2
        /\ (pc[t] = "returned" /\ hist[t].nsend = 2 /\ hist[t].first = NoReply
              /\ res[t].est \in OkStatuses) =>
                /\ hist[t].ret = DB_R_OK
                /\ res[t].id = 2
                /\ hist[t].ndrop = 1
                /\ hist[t].nconnect = 1
                /\ conn # NULL

C10_Witness ==
    \E t \in Threads :
        /\ pc[t] = "returned"
        /\ hist[t].nsend = 2
        /\ hist[t].first = NoReply
        /\ res[t].est = "PGRES_TUPLES_OK"
        /\ hist[t].ret = DB_R_OK

\* the call found no connection handle, compiled its template, and no
\* connection attempt of it has succeeded
AllAttemptsFailed(t) ==
    /\ pc[t] \in {"loop", "connect", "chk", "send", "returned"}
    /\ hist[t].conn0 = NULL
    /\ hist[t].cause = NULL
    /\ hist[t].nup = 0

C11_Bounded ==
    \A t \in Threads :
        (AllAttemptsFailed(t) /\ ~keeptrying) =>
            /\ hist[t].ntry <= ConnMaxTries
            /\ hist[t].nsend = 0
            /\ pc[t] # "send"
            /\ pc[t] = "returned" =>
                  /\ hist[t].ret = DB_R_ERR
                  /\ hist[t].site = 377
                  /\ hist[t].unlocked = 1
                  /\ mutex # t

\* C11: with keeptrying disabled and every connection attempt failing, a
\* db_query on a disconnected Connection makes at most 3 connection attempts
\* and no send, returns the error status from the "No connection" return with
\* the lock released, and its connect loop always comes to that return.
C11_GivesUpAfterThree ==
    /\ []C11_Bounded
    /\ (pc[1] = "connect" /\ ~keeptrying) ~> (pc[1] = "returned")

C11_Witness ==
    /\ pc[1] = "returned"
    /\ AllAttemptsFailed(1)
    /\ ~keeptrying
    /\ hist[1].ntry = ConnMaxTries
    /\ hist[1].nsleep = ConnMaxTries
    /\ hist[1].ret = DB_R_ERR
    /\ mutex = 0

\* the reply attached to the caller's Result has a failed status
FailedReply(r) == r # NoReply /\ StatusFailed(r.est)

\* C12: when db_query returns with a failed reply attached, the status is
\* DuplicateKey exactly when the reply's SQLSTATE is 23505 and the generic error
\* otherwise; a reply with SQLSTATE 23505 is the call's last send and leaves
\* the connection handle live.
C12_DuplicateKeyClassified ==
    \A t \in Threads :
        /\ (pc[t] = "returned" /\ FailedReply(res[t])) =>
              /\ (res[t].sqlstate = ERRCODE_UNIQUE_VIOLATION) <=> (hist[t].ret = DB_R_DUPLICATE_KEY)
              /\ (res[t].sqlstate # ERRCODE_UNIQUE_VIOLATION) <=> (hist[t].ret = DB_R_ERR)
        /\ (InQuery(t) \/ pc[t] = "returned") =>
              /\ (FailedReply(res[t]) /\ res[t].sqlstate = ERRCODE_UNIQUE_VIOLATION) =>
                    /\ pc[t] = "returned"
                    /\ res[t].id = hist[t].nsend
                    /\ conn # NULL
              /\ (FailedReply(hist[t].first) /\ hist[t].first.sqlstate = ERRCODE_UNIQUE_VIOLATION) =>
                    /\ hist[t].nsend = 1
                    /\ hist[t].ndrop = 0

C12_Witness ==
    \E t \in Threads :
        /\ pc[t] = "returned"
        /\ res[t].est = "PGRES_FATAL_ERROR"
        /\ res[t].sqlstate = ERRCODE_UNIQUE_VIOLATION
        /\ hist[t].ret = DB_R_DUPLICATE_KEY
        /\ hist[t].nsend = 2

\* C13: a 32-bit value sent with %u and handed back as a 4-byte integer column
\* is returned unchanged by db_result_get_uint32, and a 64-bit value sent with
\* %U and handed back as an 8-byte integer column is returned unchanged by
\* db_result_get_uint64.
C13_IntegerRoundTrip ==
    (dec.stage = "done" /\ dec.col.typ = dec.par.typ) =>
        /\ (dec.dir = "u" /\ dec.acc = "get_uint32") => (dec.ok /\ dec.out = dec.x)
        /\ (dec.dir = "U" /\ dec.acc = "get_uint64") => (dec.ok /\ dec.out = dec.x)

C13_Witness ==
    /\ dec.stage = "done"
    /\ dec.dir = "U"
    /\ dec.col.typ = "INT8OID"
    /\ dec.acc = "get_uint64"
    /\ dec.x = <<0, 255, 1, 255, 255, 0, 255, 1>>
    /\ dec.out = dec.x

\* C14: db_result_get_uint32 on an 8-byte integer column succeeds and stores
\* the low-order 32 bits of the column's value; db_result_get_uint64 on a
\* 4-byte integer column succeeds and stores the column's value with the
\* high-order 32 bits zero.
C14_NarrowAndWiden ==
    dec.stage = "done" =>
        /\ (dec.col.typ = "INT8OID" /\ dec.acc = "get_uint32") =>
              /\ dec.ok
              /\ dec.out = SubSeq(dec.col.bytes, 5, 8)
              /\ dec.dir = "U" => dec.out = SubSeq(dec.x, 5, 8)
        /\ (dec.col.typ = "INT4OID" /\ dec.acc = "get_uint64") =>
              /\ dec.ok
              /\ SubSeq(dec.out, 1, 4) = Zero32
              /\ SubSeq(dec.out, 5, 8) = dec.col.bytes
              /\ dec.dir = "u" => SubSeq(dec.out, 5, 8) = dec.x

C14_Witness ==
    /\ dec.stage = "done"
    /\ dec.dir = "U"
    /\ dec.col.typ = "INT8OID"
    /\ dec.acc = "get_uint32"
    /\ dec.x = <<255, 0, 1, 255, 0, 255, 255, 1>>
    /\ dec.out = <<0, 255, 255, 1>>

\* the column types an accessor takes
Accepts(acc) ==
    CASE acc = "get_string" -> {"TEXTOID", "VARCHAROID"}
      [] acc = "get_uint32" -> {"INT4OID", "INT8OID"}
      [] acc = "get_uint64" -> {"INT4OID", "INT8OID"}
      [] acc = "get_bool" -> {"BOOLOID"}

\* NULL, 0 or false
Neutral(acc) ==
    CASE acc = "get_string" -> NullPtr
      [] acc = "get_uint32" -> Zero32
      [] acc = "get_uint64" -> Zero64
      [] acc = "get_bool" -> FALSE

\* C15: a positional accessor called on a column whose reported type it does
\* not take returns false to its caller with the output set to NULL, 0 or
\* false.
C15_MismatchIsDecodeError ==
    (dec.stage \in {"done", "aborted"} /\ dec.col.typ \notin Accepts(dec.acc)) =>
        /\ dec.stage = "done"
        /\ ~dec.ok
        /\ dec.out = Neutral(dec.acc)

\* C16: a db_query call has sent twice only if its first send yielded no reply
\* or a fatal-status reply without SQLSTATE, and then the handle was dropped
\* and a reconnect made in between; a first reply with a failed status and a
\* SQLSTATE ends the call after that one send with the handle still live.
C16_ResendOnlyWhenRetryable ==
    \A t \in Threads :
        (InQuery(t) \/ pc[t] = "returned") =>
            /\ hist[t].nsend = 2 =>
                  /\ \/ hist[t].first = NoReply
                     \/ (hist[t].first.est = "PGRES_FATAL_ERROR" /\ hist[t].first.sqlstate = NULL)
                  /\ hist[t].ndrop >= 1
                  /\ hist[t].nconnect = 1
            /\ (FailedReply(hist[t].first) /\ hist[t].first.sqlstate # NULL) =>
                  /\ pc[t] = "returned"
                  /\ hist[t].nsend = 1
                  /\ hist[t].ndrop = 0
                  /\ hist[t].nconnect = 0
                  /\ conn # NULL
                  /\ res[t] = hist[t].first

C16_Witness ==
    \E t \in Threads :
        /\ pc[t] = "returned"
        /\ hist[t].first.est = "PGRES_FATAL_ERROR"
        /\ hist[t].first.sqlstate = "42601"
        /\ hist[t].nsend = 1
        /\ conn # NULL

C17_StopsWhenTold ==
    \A t \in Threads :
        ((InQuery(t) \/ pc[t] = "returned") /\ keeptrying) =>
            /\ hist[t].blind = 0
            /\ hist[t].stopat > 0 =>
                  /\ hist[t].ntry = hist[t].stopat
                  /\ hist[t].nsleep = hist[t].stopsl
                  /\ hist[t].nsleep = hist[t].ntry - 1
                  /\ pc[t] \in {"chk", "returned"}
                  /\ conn = NULL
                  /\ pc[t] = "returned" =>
                        /\ hist[t].ret = DB_R_ERR
                        /\ hist[t].site = 377

\* C17: in keeptrying mode no sleep is made after a failed attempt that found
\* the shutdown signal raised; once db_connect has seen the signal raised it
\* makes no further attempt and no further sleep and db_query returns the
\* error status from the "No connection" return; and a db_query that is in the
\* connect loop with the signal raised always returns.
C17_ShutdownEndsConnectLoop ==
    /\ []C17_StopsWhenTold
    /\ (keeptrying /\ pc[1] = "connect" /\ ~keep_running) ~> (pc[1] = "returned")

C17_Witness ==
    /\ pc[1] = "returned"
    /\ keeptrying
    /\ ~keep_running
    /\ hist[1].stopat = ConnMaxTries + 2
    /\ hist[1].nsleep = ConnMaxTries + 1
    /\ hist[1].ret = DB_R_ERR

\* C18: within one run of the connect loop every sleep lasts between 2 and 30
\* seconds and is not shorter than the sleep before it.
C18_SleepNeverShrinks ==
    \A t \in Threads :
        ((InQuery(t) \/ pc[t] = "returned") /\ hist[t].nsleep > 0) =>
            /\ hist[t].sleep >= 2
            /\ hist[t].sleep <= 30
            /\ hist[t].prev <= hist[t].sleep

\* thread t is about to scan a '%' followed by a directive letter of set ds
AtDirective(t, ds) ==
    /\ pc[t] = "scan"
    /\ ScanMore(loc[t])
    /\ TxtAt(loc[t].txt, loc[t].i) = "%"
    /\ TxtAt(loc[t].txt, loc[t].i + 1) \in ds

\* what an inline directive splices
Spliced(d, a) == IF d = "s" THEN a.str ELSE <<"'">> \o a.str \o <<"'">>

\* the scan step taken by t appended text to the SQL, unless it set the error
\* status
Appended(t, text) ==
    loc'[t].rep = DB_R_OK =>
        /\ loc'[t].o = loc[t].o + Len(text)
        /\ SubSeq(q', loc[t].o + 1, loc'[t].o) = text

\* C19: the scan step of an inline directive leaves the parameter count and
\* the parameter list alone and splices the argument (%s unchanged, %t in
\* single quotes) unless it reports an error; the scan step of a bound
\* directive that still has a slot takes the next placeholder number.
C19_InlineTakesNoSlot ==
    [][\A t \in Threads :
        /\ AtDirective(t, InlineDirectives) =>
              /\ loc'[t].v = loc[t].v
              /\ loc'[t].params = loc[t].params
              /\ Appended(t, Spliced(TxtAt(loc[t].txt, loc[t].i + 1), loc[t].arg))
        /\ (AtDirective(t, BoundDirectives) /\ loc[t].v < DB_MAX_PARAMS) =>
              /\ loc'[t].v = loc[t].v + 1
              /\ Len(loc'[t].params) = loc'[t].v
              /\ Appended(t, <<"$">> \o FmtU(loc[t].v + 1))]_vars

\* C20: no assertion of db_connect or db_tryconnect fails; a thread is in the
\* connect loop only while the Connection has no handle; nothing is connected
\* before the first db_query; and a db_query has made connection attempts only
\* if it found no handle when it was called or a failed send of it dropped
\* the handle.
C20_ConnectOnlyWithoutHandle ==
    /\ halted # "assert"
    /\ (\A t \in Threads : hist[t].calls = 0) => conn = NULL
    /\ \A t \in Threads :
          /\ pc[t] = "connect" => conn = NULL
          /\ hist[t].ntry > 0 => (hist[t].conn0 = NULL \/ hist[t].ndrop >= 1)
          /\ hist[t].nup <= 1 + hist[t].ndrop
          /\ (hist[t].conn0 # NULL /\ hist[t].ndrop = 0) => hist[t].nup = 0

C20_Witness ==
    \E t \in Threads :
        /\ pc[t] = "returned"
        /\ hist[t].conn0 = "PGconn"
        /\ hist[t].ndrop = 1
        /\ hist[t].nup = 1
        /\ hist[t].ntry = 2
        /\ conn = "PGconn"

\* thread t takes the step that is its db_query_finish
Finishes(t) == pc[t] = "returned" /\ pc'[t] = "idle"

\* C21: for a caller that follows every db_query with db_query_finish, each
\* db_query_finish is called while the caller still holds the lock, db_query
\* not having released it already, and leaves the lock free: one release per
\* db_query.
C21_OneReleasePerQuery ==
    [][\A t \in Threads :
        Finishes(t) =>
            /\ mutex = t
            /\ hist[t].unlocked = 0
            /\ mutex' = 0]_vars

\* C22: when db_query has returned after releasing the lock itself no reply is
\* attached to the caller's Result, and a reply is attached only on returns
\* that leave the lock with the caller.
C22_NoReplyWithoutLock ==
    \A t \in Threads :
        pc[t] = "returned" =>
            /\ hist[t].unlocked > 0 => res[t] = NoReply
            /\ res[t] # NoReply => (hist[t].unlocked = 0 /\ mutex = t)

====
